---- MODULE Spec2Model ----
(***************************************************************************)
(* Intent-arbitration core of the satellite control loop: IntentManager,   *)
(* PolicyGate, SafetyGate, StateEngine and Orchestrator.                   *)
(*                                                                         *)
(* Physical quantities are fixed-point: one unit is 0.01 of the source's   *)
(* unit (battery 4.0 is 400, temperature 150.1 is 15010, position 0.5 is   *)
(* 50).  The source's 0.1 * x becomes x \div 10 (rounded down to 0.01).    *)
(* Policy scores are kept as 30 times the source's score, which makes      *)
(* every score an integer (the divisors are 20, 30, 100 and 2).            *)
(***************************************************************************)
EXTENDS Integers, Sequences, FiniteSets, TLC

\* ---------------------------------------------------------------- bounds
\* cycles run
MaxCycles == 7
\* calls the ingress surface makes (submit_intent and mark_denied together)
MaxIngress == 2
\* the ingress surface makes its calls before this many cycles have run
IngressWindow == 2
\* iterations that execute or block an intent, in the loop left running
LiveCap == 6
\* loop threads OrchestrationRunner.start creates
MaxThreads == 2

\* ------------------------------------------------- SystemState thresholds
SAFE_ENTRY_BATTERY == 1000
SAFE_EXIT_BATTERY == 2000
SAFE_EXIT_EPSILON == 50
SAFE_ENTRY_TEMP == 12000
SAFE_EXIT_TEMP == 10000
SAFE_EXIT_TEMP_EPSILON == 100
LOW_POWER_ENTRY == 2500
LOW_POWER_EXIT == 3000
LOW_POWER_EXIT_EPSILON == 50
BASE_LOAD == 60
SOLAR_CHARGE_RATE == 120
MAX_CHARGE_RATE == 150
\* 0.95, as a percentage
CHARGE_EFFICIENCY == 95
ECLIPSE_PERIOD == 20
ECLIPSE_DURATION == 6
POSITION_MIN == -1000
POSITION_MAX == 1000
MAX_TEMP == 15000
MIN_BATTERY == 0

\* ---------------------------------------------------- SafetyGate constants
CRITICAL_BATTERY == 500
CRITICAL_TEMP == 14000
ENERGY_INTENSIVE_INTENTS == {"orbit_correction"}

INTENT_DOMAIN_MAP(intent_type) ==
    CASE intent_type = "orbit_correction" -> {"battery", "thermal"}
      [] intent_type = "battery_recovery" -> {"battery"}
      [] intent_type = "thermal_recovery" -> {"thermal"}
      [] OTHER -> {}

\* ---------------------------------------------------- PolicyGate constants
\* scores are 30 times the source's: 1000.0, 50.0, -200.0, 100.0 and 0.5
RECOVERY_SCALE == 30000
LOW_POWER_BIAS == 1500
NOMINAL_RECOVERY_PENALTY == -6000
ORBIT_BASE_SCORE == 3000
HISTORY_PENALTY_FACTOR == 15

\* --------------------------------------------------- Orchestrator constant
MIN_RECOVERY_LOCK_CYCLES == 3

\* Python's None, for an intent reference
None == 0

IntentTypes == {"orbit_correction", "battery_recovery", "thermal_recovery"}
Terminal == {"COMPLETED", "DENIED"}
Active == {"PENDING", "ACTIVE"}

\* str.endswith("_recovery") on the intent types in use
IsRecovery(intent_type) == intent_type \in {"battery_recovery", "thermal_recovery"}

Min(a, b) == IF a < b THEN a ELSE b
Max(a, b) == IF a > b THEN a ELSE b

VARIABLES
    system_state,             \* SystemState: position, battery_level, temperature, mode, cycle_count
    heap,                     \* every Intent object created so far, indexed by intent_id
    intents,                  \* IntentManager._intents: the stored ids, in insertion order
    last_selected_intent,     \* Orchestrator._last_selected_intent (an id, or None)
    pending_safe_injections,  \* Orchestrator._pending_safe_injections
    cycle,                    \* the locals of the last iteration of Orchestrator.run
    frame,                    \* the last telemetry frame published
    nframes,                  \* number of frames published so far
    status_writes,            \* the assignments to Intent.status made by the last step
    denials,                  \* number of mark_denied calls so far
    boot,                     \* the initial conditions the bootstrap chose
    running,                  \* OrchestrationRunner._running
    loops,                    \* where each thread started on _loop is, in order of creation
    reader                    \* the locals of stream_telemetry and what it has emitted

vars == <<system_state, heap, intents, last_selected_intent, pending_safe_injections,
          cycle, frame, nframes, status_writes, denials, boot, running, loops, reader>>

\* the cycle driver and the telemetry reader of the dashboard
driver == <<running, loops, reader>>

\* =========================================================== IntentManager

\* Intent(...) as IntentManager.submit_intent builds it
NewIntent(id, intent_type, goal_metric, goal_reference, now, origin) ==
    [intent_id |-> id,
     intent_type |-> intent_type,
     created_at |-> now,
     goal_metric |-> goal_metric,
     goal_reference |-> goal_reference,
     status |-> "PENDING",
     evaluation_cycles |-> 0,
     safety_block_cycles |-> 0,
     consecutive_selected_cycles |-> 0,
     origin |-> origin]

\* st is [heap, intents]; the fresh uuid is the next index of the heap
submit_intent(st, intent_type, goal_metric, goal_reference, now, origin) ==
    LET id == Len(st.heap) + 1 IN
    [heap |-> Append(st.heap, NewIntent(id, intent_type, goal_metric, goal_reference, now, origin)),
     intents |-> Append(st.intents, id),
     intent |-> id]

list_active(st) ==
    SelectSeq(st.intents, LAMBDA i : st.heap[i].status \in Active)

\* the first element of a sequence of ids with the given type, or None
FirstOfType(ids, h, intent_type) ==
    LET hits == SelectSeq(ids, LAMBDA i : h[i].intent_type = intent_type) IN
    IF hits = <<>> THEN None ELSE Head(hits)

get_active_by_type(st, intent_type) ==
    FirstOfType(list_active(st), st.heap, intent_type)

archive_completed(st) ==
    SelectSeq(st.intents, LAMBDA i : st.heap[i].status \notin Terminal)

\* ============================================================= StateEngine

update_mode(s) ==
    LET m ==
        IF s.battery_level <= SAFE_ENTRY_BATTERY \/ s.temperature >= SAFE_ENTRY_TEMP
        THEN "SAFE"
        ELSE IF /\ s.mode = "SAFE"
                /\ s.battery_level >= SAFE_EXIT_BATTERY - SAFE_EXIT_EPSILON
                /\ s.temperature <= SAFE_EXIT_TEMP + SAFE_EXIT_TEMP_EPSILON
        THEN "NOMINAL"
        ELSE IF s.battery_level <= LOW_POWER_ENTRY
        THEN "LOW_POWER"
        ELSE IF s.mode = "LOW_POWER" /\ s.battery_level >= LOW_POWER_EXIT - LOW_POWER_EXIT_EPSILON
        THEN "NOMINAL"
        ELSE s.mode
    IN [s EXCEPT !.mode = m]

apply_orbit_correction(s) ==
    LET step == 50
        battery_cost_per_unit == 2
        thermal_cost_per_unit == 4
        battery_cost == step * battery_cost_per_unit
        thermal_cost == step * thermal_cost_per_unit
    IN [s EXCEPT !.position = @ + step,
                 !.battery_level = @ - battery_cost,
                 !.temperature = @ + thermal_cost]

apply_power_model(s) ==
    LET cycle_in_period == s.cycle_count % ECLIPSE_PERIOD
        in_sunlight == cycle_in_period < (ECLIPSE_PERIOD - ECLIPSE_DURATION)
        solar_in == IF in_sunlight THEN SOLAR_CHARGE_RATE ELSE 0
        charge_in == (Min(MAX_CHARGE_RATE, solar_in) * CHARGE_EFFICIENCY) \div 100
        net == charge_in - BASE_LOAD
    IN [s EXCEPT !.battery_level = Max(MIN_BATTERY, @ + net)]

\* the target of battery recovery and of its completion check
battery_target(s) ==
    IF s.mode = "SAFE" THEN SAFE_EXIT_BATTERY
    ELSE IF s.mode = "LOW_POWER" THEN LOW_POWER_EXIT
    ELSE IF s.battery_level < LOW_POWER_EXIT THEN LOW_POWER_EXIT
    ELSE SAFE_EXIT_BATTERY

apply_recovery_physics(s, intent_type) ==
    IF intent_type = "battery_recovery" THEN
        LET target == battery_target(s)
            deficit == target - s.battery_level
        IN IF deficit > 0
           THEN [s EXCEPT !.battery_level = Min(target, @ + deficit \div 10)]
           ELSE s
    ELSE IF intent_type = "thermal_recovery" THEN
        LET excess == s.temperature - SAFE_EXIT_TEMP
        IN IF excess > 0
           THEN [s EXCEPT !.temperature = @ - excess \div 10]
           ELSE s
    ELSE s

\* mutant of check_completion: the orbit goal compared with > instead of >=
check_completion_strict(s, intent) ==
    IF intent.intent_type = "orbit_correction" THEN
        LET goal_value == IF intent.goal_metric = "position" THEN intent.goal_reference ELSE 300
        IN s.position > goal_value
    ELSE IF intent.intent_type = "battery_recovery" THEN
        s.battery_level >= battery_target(s)
    ELSE IF intent.intent_type = "thermal_recovery" THEN
        s.temperature <= SAFE_EXIT_TEMP + SAFE_EXIT_TEMP_EPSILON
    ELSE FALSE

\* TRUE when _check_completion sets the intent COMPLETED
check_completion(s, intent) ==
    IF intent.intent_type = "orbit_correction" THEN
        LET goal_value == IF intent.goal_metric = "position" THEN intent.goal_reference ELSE 300
        IN s.position >= goal_value
    ELSE IF intent.intent_type = "battery_recovery" THEN
        s.battery_level >= battery_target(s)
    ELSE IF intent.intent_type = "thermal_recovery" THEN
        s.temperature <= SAFE_EXIT_TEMP + SAFE_EXIT_TEMP_EPSILON
    ELSE FALSE

\* mutant of apply: the mode update and the physics run, cycle_count is not advanced
apply_no_count(s, intent) ==
    LET s2 == update_mode(s)
        s3 == IF s2.mode = "SAFE"
              THEN apply_recovery_physics(apply_power_model(s2), intent.intent_type)
              ELSE LET s2a == IF intent.intent_type = "orbit_correction"
                              THEN apply_orbit_correction(s2) ELSE s2
                   IN IF IsRecovery(intent.intent_type)
                      THEN apply_recovery_physics(apply_power_model(s2a), intent.intent_type)
                      ELSE apply_power_model(s2a)
        done == check_completion(s3, intent)
    IN [system_state |-> s3,
        intent |-> [intent EXCEPT !.evaluation_cycles = @ + 1,
                                  !.status = IF done THEN "COMPLETED" ELSE "ACTIVE"],
        writes |-> {<<intent.intent_id, intent.status, "ACTIVE">>}
                   \cup (IF done THEN {<<intent.intent_id, "ACTIVE", "COMPLETED">>} ELSE {}),
        result |-> TRUE]

\* StateEngine.apply on an intent object (the orchestrator never passes None):
\* the new SystemState, the new object and the writes made to its status
apply(s, intent) ==
    LET s1 == update_mode(s)
        s2 == [s1 EXCEPT !.cycle_count = @ + 1]
        s3 == IF s2.mode = "SAFE"
              THEN apply_recovery_physics(apply_power_model(s2), intent.intent_type)
              ELSE LET s2a == IF intent.intent_type = "orbit_correction"
                              THEN apply_orbit_correction(s2) ELSE s2
                   IN IF IsRecovery(intent.intent_type)
                      THEN apply_recovery_physics(apply_power_model(s2a), intent.intent_type)
                      ELSE apply_power_model(s2a)
        done == check_completion(s3, intent)
    IN [system_state |-> s3,
        intent |-> [intent EXCEPT !.evaluation_cycles = @ + 1,
                                  !.status = IF done THEN "COMPLETED" ELSE "ACTIVE"],
        writes |-> {<<intent.intent_id, intent.status, "ACTIVE">>}
                   \cup (IF done THEN {<<intent.intent_id, "ACTIVE", "COMPLETED">>} ELSE {}),
        result |-> TRUE]

\* ============================================================== SafetyGate

SafetyDecision(blocked, reason, critical_domains) ==
    [blocked |-> blocked, reason |-> reason, critical_domains |-> critical_domains]

critical_detection(s) ==
    (IF s.battery_level <= CRITICAL_BATTERY THEN <<"battery">> ELSE <<>>)
    \o (IF s.temperature >= CRITICAL_TEMP THEN <<"thermal">> ELSE <<>>)

violated_detection(s) ==
    (IF s.battery_level <= SAFE_ENTRY_BATTERY THEN <<"battery">> ELSE <<>>)
    \o (IF s.temperature >= SAFE_ENTRY_TEMP THEN <<"thermal">> ELSE <<>>)

\* mutant of SafetyGate_evaluate: the MAX_TEMP hard invariant is not checked
SafetyGate_evaluate_no_max_temp(intent_type, s) ==
    LET critical_domains == critical_detection(s)
        violated_domains == violated_detection(s)
        affected_domains == INTENT_DOMAIN_MAP(intent_type)
        worsened == SelectSeq(violated_domains, LAMBDA d : d \in affected_domains)
    IN
    IF s.battery_level <= MIN_BATTERY
    THEN SafetyDecision(TRUE, "battery_depleted", critical_domains)
    ELSE IF s.position < POSITION_MIN \/ s.position > POSITION_MAX
    THEN SafetyDecision(TRUE, "position_bounds_exceeded", critical_domains)
    ELSE IF intent_type = "none"
    THEN SafetyDecision(FALSE, "none", critical_domains)
    ELSE IF s.mode = "SAFE" /\ ~IsRecovery(intent_type)
    THEN SafetyDecision(TRUE, "safe_mode_mission_blocked", critical_domains)
    ELSE IF s.mode = "LOW_POWER" /\ intent_type \in ENERGY_INTENSIVE_INTENTS
    THEN SafetyDecision(TRUE, "low_power_energy_intensive_blocked", critical_domains)
    ELSE IF worsened # <<>> /\ ~IsRecovery(intent_type)
    THEN SafetyDecision(TRUE,
                        IF Head(worsened) = "battery"
                        THEN "battery_unsafe_execution_blocked"
                        ELSE "thermal_unsafe_execution_blocked",
                        critical_domains)
    ELSE SafetyDecision(FALSE, "none", critical_domains)

\* mutant of SafetyGate_evaluate: with a critical domain reported, the
\* domain-aware blocking is left to the critical override
SafetyGate_evaluate_critical_unblocked(intent_type, s) ==
    LET critical_domains == critical_detection(s)
        violated_domains == violated_detection(s)
        affected_domains == INTENT_DOMAIN_MAP(intent_type)
        worsened == SelectSeq(violated_domains, LAMBDA d : d \in affected_domains)
    IN
    IF s.battery_level <= MIN_BATTERY
    THEN SafetyDecision(TRUE, "battery_depleted", critical_domains)
    ELSE IF s.temperature >= MAX_TEMP
    THEN SafetyDecision(TRUE, "temperature_max_exceeded", critical_domains)
    ELSE IF s.position < POSITION_MIN \/ s.position > POSITION_MAX
    THEN SafetyDecision(TRUE, "position_bounds_exceeded", critical_domains)
    ELSE IF intent_type = "none"
    THEN SafetyDecision(FALSE, "none", critical_domains)
    ELSE IF s.mode = "SAFE" /\ ~IsRecovery(intent_type)
    THEN SafetyDecision(TRUE, "safe_mode_mission_blocked", critical_domains)
    ELSE IF s.mode = "LOW_POWER" /\ intent_type \in ENERGY_INTENSIVE_INTENTS
    THEN SafetyDecision(TRUE, "low_power_energy_intensive_blocked", critical_domains)
    ELSE IF worsened # <<>> /\ ~IsRecovery(intent_type) /\ critical_domains = <<>>
    THEN SafetyDecision(TRUE,
                        IF Head(worsened) = "battery"
                        THEN "battery_unsafe_execution_blocked"
                        ELSE "thermal_unsafe_execution_blocked",
                        critical_domains)
    ELSE SafetyDecision(FALSE, "none", critical_domains)

\* mutant of SafetyGate_evaluate: the domain-aware blocking does not let a
\* recovery intent through
SafetyGate_evaluate_blocks_recovery(intent_type, s) ==
    LET critical_domains == critical_detection(s)
        violated_domains == violated_detection(s)
        affected_domains == INTENT_DOMAIN_MAP(intent_type)
        worsened == SelectSeq(violated_domains, LAMBDA d : d \in affected_domains)
    IN
    IF s.battery_level <= MIN_BATTERY
    THEN SafetyDecision(TRUE, "battery_depleted", critical_domains)
    ELSE IF s.temperature >= MAX_TEMP
    THEN SafetyDecision(TRUE, "temperature_max_exceeded", critical_domains)
    ELSE IF s.position < POSITION_MIN \/ s.position > POSITION_MAX
    THEN SafetyDecision(TRUE, "position_bounds_exceeded", critical_domains)
    ELSE IF intent_type = "none"
    THEN SafetyDecision(FALSE, "none", critical_domains)
    ELSE IF s.mode = "SAFE" /\ ~IsRecovery(intent_type)
    THEN SafetyDecision(TRUE, "safe_mode_mission_blocked", critical_domains)
    ELSE IF s.mode = "LOW_POWER" /\ intent_type \in ENERGY_INTENSIVE_INTENTS
    THEN SafetyDecision(TRUE, "low_power_energy_intensive_blocked", critical_domains)
    ELSE IF worsened # <<>>
    THEN SafetyDecision(TRUE,
                        IF Head(worsened) = "battery"
                        THEN "battery_unsafe_execution_blocked"
                        ELSE "thermal_unsafe_execution_blocked",
                        critical_domains)
    ELSE SafetyDecision(FALSE, "none", critical_domains)

\* mutant of SafetyGate_evaluate: without a selected intent the gate answers
\* before it tests the hard invariants
SafetyGate_evaluate_none_first(intent_type, s) ==
    LET critical_domains == critical_detection(s)
        violated_domains == violated_detection(s)
        affected_domains == INTENT_DOMAIN_MAP(intent_type)
        worsened == SelectSeq(violated_domains, LAMBDA d : d \in affected_domains)
    IN
    IF intent_type = "none"
    THEN SafetyDecision(FALSE, "none", critical_domains)
    ELSE IF s.battery_level <= MIN_BATTERY
    THEN SafetyDecision(TRUE, "battery_depleted", critical_domains)
    ELSE IF s.temperature >= MAX_TEMP
    THEN SafetyDecision(TRUE, "temperature_max_exceeded", critical_domains)
    ELSE IF s.position < POSITION_MIN \/ s.position > POSITION_MAX
    THEN SafetyDecision(TRUE, "position_bounds_exceeded", critical_domains)
    ELSE IF s.mode = "SAFE" /\ ~IsRecovery(intent_type)
    THEN SafetyDecision(TRUE, "safe_mode_mission_blocked", critical_domains)
    ELSE IF s.mode = "LOW_POWER" /\ intent_type \in ENERGY_INTENSIVE_INTENTS
    THEN SafetyDecision(TRUE, "low_power_energy_intensive_blocked", critical_domains)
    ELSE IF worsened # <<>> /\ ~IsRecovery(intent_type)
    THEN SafetyDecision(TRUE,
                        IF Head(worsened) = "battery"
                        THEN "battery_unsafe_execution_blocked"
                        ELSE "thermal_unsafe_execution_blocked",
                        critical_domains)
    ELSE SafetyDecision(FALSE, "none", critical_domains)

\* SafetyGate.evaluate; intent_type is "none" when selected_intent is None
SafetyGate_evaluate(intent_type, s) ==
    LET critical_domains == critical_detection(s)
        violated_domains == violated_detection(s)
        affected_domains == INTENT_DOMAIN_MAP(intent_type)
        worsened == SelectSeq(violated_domains, LAMBDA d : d \in affected_domains)
    IN
    IF s.battery_level <= MIN_BATTERY
    THEN SafetyDecision(TRUE, "battery_depleted", critical_domains)
    ELSE IF s.temperature >= MAX_TEMP
    THEN SafetyDecision(TRUE, "temperature_max_exceeded", critical_domains)
    ELSE IF s.position < POSITION_MIN \/ s.position > POSITION_MAX
    THEN SafetyDecision(TRUE, "position_bounds_exceeded", critical_domains)
    ELSE IF intent_type = "none"
    THEN SafetyDecision(FALSE, "none", critical_domains)
    ELSE IF s.mode = "SAFE" /\ ~IsRecovery(intent_type)
    THEN SafetyDecision(TRUE, "safe_mode_mission_blocked", critical_domains)
    ELSE IF s.mode = "LOW_POWER" /\ intent_type \in ENERGY_INTENSIVE_INTENTS
    THEN SafetyDecision(TRUE, "low_power_energy_intensive_blocked", critical_domains)
    ELSE IF worsened # <<>> /\ ~IsRecovery(intent_type)
    THEN SafetyDecision(TRUE,
                        IF Head(worsened) = "battery"
                        THEN "battery_unsafe_execution_blocked"
                        ELSE "thermal_unsafe_execution_blocked",
                        critical_domains)
    ELSE SafetyDecision(FALSE, "none", critical_domains)

\* ============================================================== PolicyGate

\* the score of one intent, times 30
score_of(intent, s) ==
    LET base ==
            IF intent.intent_type = "battery_recovery" THEN
                LET target == IF s.mode = "LOW_POWER" THEN LOW_POWER_EXIT ELSE SAFE_EXIT_BATTERY
                IN (Max(0, target - s.battery_level) * RECOVERY_SCALE) \div target
            ELSE IF intent.intent_type = "thermal_recovery" THEN
                (Max(0, s.temperature - SAFE_EXIT_TEMP) * RECOVERY_SCALE) \div SAFE_EXIT_TEMP
            ELSE IF intent.intent_type = "orbit_correction" THEN ORBIT_BASE_SCORE
            ELSE 0
        low_power == IF s.mode = "LOW_POWER" /\ IsRecovery(intent.intent_type)
                     THEN LOW_POWER_BIAS ELSE 0
        nominal == IF s.mode = "NOMINAL" /\ IsRecovery(intent.intent_type)
                   THEN NOMINAL_RECOVERY_PENALTY ELSE 0
    IN base + low_power + nominal - intent.safety_block_cycles * HISTORY_PENALTY_FACTOR

\* mutant of first_max: among keys of maximal score the last one wins
first_max_last(ids, scores) ==
    LET best == CHOOSE k \in 1..Len(ids) :
                    /\ \A j \in 1..Len(ids) : scores[ids[j]] <= scores[ids[k]]
                    /\ \A j \in (k + 1)..Len(ids) : scores[ids[j]] < scores[ids[k]]
    IN ids[best]

\* max(scores, key=scores.get): the first key, in insertion order, of maximal score
first_max(ids, scores) ==
    LET best == CHOOSE k \in 1..Len(ids) :
                    /\ \A j \in 1..Len(ids) : scores[ids[j]] <= scores[ids[k]]
                    /\ \A j \in 1..(k - 1) : scores[ids[j]] < scores[ids[k]]
    IN ids[best]

\* PolicyGate.evaluate on the active list (ids into the heap h)
PolicyGate_evaluate(ids, h, s) ==
    IF ids = <<>>
    THEN [selected_intent |-> None, scores |-> <<>>, reason |-> "no_active_intents"]
    ELSE LET scores == [i \in {ids[k] : k \in 1..Len(ids)} |-> score_of(h[i], s)]
         IN [selected_intent |-> first_max(ids, scores),
             scores |-> scores,
             reason |-> "highest_score_selected"]

\* =============================================================== Telemetry

\* SystemState.snapshot
snapshot(s) ==
    [position |-> s.position, battery_level |-> s.battery_level,
     temperature |-> s.temperature, mode |-> s.mode]

\* TelemetryBuilder.build_frame: the "data" of a cycle frame
build_frame(s, policy_result, executed_intent, safety_result, override_applied, lock_applied) ==
    [state |-> snapshot(s),
     policy |-> [selected_intent_id |-> policy_result.selected_intent,
                 scores |-> policy_result.scores],
     execution |-> [executed_intent_id |-> executed_intent,
                    override_applied |-> override_applied,
                    lock_applied |-> lock_applied],
     safety |-> [blocked |-> safety_result.blocked,
                 critical_domains |-> safety_result.critical_domains,
                 reason |-> safety_result.reason]]

\* ============================================================ Orchestrator

\* the orders in which iterating a set of strings can yield its elements
\* (str hashes are salted per process)
Orders(S) ==
    {q \in [1..Cardinality(S) -> S] : \A a, b \in 1..Cardinality(S) : a # b => q[a] # q[b]}

\* mutant of compute_safe_injections: the mode is not looked at
compute_safe_injections_any_mode(s) ==
    (IF s.battery_level <= SAFE_ENTRY_BATTERY THEN {"battery_recovery"} ELSE {})
    \cup (IF s.temperature >= SAFE_ENTRY_TEMP THEN {"thermal_recovery"} ELSE {})

compute_safe_injections(s) ==
    IF s.mode # "SAFE" THEN {}
    ELSE (IF s.battery_level <= SAFE_ENTRY_BATTERY THEN {"battery_recovery"} ELSE {})
         \cup (IF s.temperature >= SAFE_ENTRY_TEMP THEN {"thermal_recovery"} ELSE {})

\* _apply_pending_safe_injections, iterating the pending set in the given order
RECURSIVE apply_pending_safe_injections(_, _, _)
apply_pending_safe_injections(st, order, now) ==
    IF order = <<>> THEN [heap |-> st.heap, intents |-> st.intents]
    ELSE LET st1 == IF get_active_by_type(st, Head(order)) = None
                    THEN submit_intent(st, Head(order), "none", 0, now, "safe_injection")
                    ELSE st
         IN apply_pending_safe_injections([heap |-> st1.heap, intents |-> st1.intents],
                                          Tail(order), now)

\* mutant of apply_critical_override: a missing recovery intent is not submitted
apply_critical_override_no_submit(st, critical_domains, active_intents, now) ==
    IF critical_domains = <<>>
    THEN [heap |-> st.heap, intents |-> st.intents, intent |-> None]
    ELSE [heap |-> st.heap, intents |-> st.intents,
          intent |-> FirstOfType(active_intents, st.heap,
                                 IF Head(critical_domains) = "battery"
                                 THEN "battery_recovery" ELSE "thermal_recovery")]

\* mutant of apply_critical_override: the last critical domain is served, not the first
apply_critical_override_last_domain(st, critical_domains, active_intents, now) ==
    IF critical_domains = <<>>
    THEN [heap |-> st.heap, intents |-> st.intents, intent |-> None]
    ELSE LET recovery_type == IF critical_domains[Len(critical_domains)] = "battery"
                              THEN "battery_recovery" ELSE "thermal_recovery"
             found == FirstOfType(active_intents, st.heap, recovery_type)
         IN IF found # None
            THEN [heap |-> st.heap, intents |-> st.intents, intent |-> found]
            ELSE submit_intent(st, recovery_type, "none", 0, now, "critical_override")

\* _apply_critical_override: the store after it and the target it returns
apply_critical_override(st, critical_domains, active_intents, now) ==
    IF critical_domains = <<>>
    THEN [heap |-> st.heap, intents |-> st.intents, intent |-> None]
    ELSE LET recovery_type == IF Head(critical_domains) = "battery"
                              THEN "battery_recovery" ELSE "thermal_recovery"
             found == FirstOfType(active_intents, st.heap, recovery_type)
         IN IF found # None
            THEN [heap |-> st.heap, intents |-> st.intents, intent |-> found]
            ELSE submit_intent(st, recovery_type, "none", 0, now, "critical_override")

\* mutant of apply_recovery_lock: critical domains do not break the lock
apply_recovery_lock_despite_critical(selected, last, h, critical_domains) ==
    IF last = None THEN selected
    ELSE IF ~IsRecovery(h[last].intent_type) THEN selected
    ELSE IF h[last].consecutive_selected_cycles < MIN_RECOVERY_LOCK_CYCLES THEN last
    ELSE selected

\* mutant of apply_recovery_lock: <= for < in the minimum-cycles test
apply_recovery_lock_one_more(selected, last, h, critical_domains) ==
    IF last = None THEN selected
    ELSE IF ~IsRecovery(h[last].intent_type) THEN selected
    ELSE IF critical_domains # <<>> THEN selected
    ELSE IF h[last].consecutive_selected_cycles <= MIN_RECOVERY_LOCK_CYCLES THEN last
    ELSE selected

\* _apply_recovery_lock; last is the object _last_selected_intent refers to
apply_recovery_lock(selected, last, h, critical_domains) ==
    IF last = None THEN selected
    ELSE IF ~IsRecovery(h[last].intent_type) THEN selected
    ELSE IF critical_domains # <<>> THEN selected
    ELSE IF h[last].consecutive_selected_cycles < MIN_RECOVERY_LOCK_CYCLES THEN last
    ELSE selected

\* _update_lock_tracking: the new consecutive_selected_cycles of the selection
update_lock_tracking(selected, last, h) ==
    IF last # None /\ h[selected].intent_id = h[last].intent_id
    THEN h[selected].consecutive_selected_cycles + 1
    ELSE 1

TypeOf(h, i) == IF i = None THEN "none" ELSE h[i].intent_type

\* ---- Orchestrator.run, one iteration of its loop, in the order of the code.
\* Each stage hands what it computed to the next; the last one returns every
\* value the iteration leaves behind.

\* mutant of cycle_execute: the blocked path records the selection as last selected
cycle_execute_block_tracks(policy_result, ov, locals, selected, safety_result) ==
    IF safety_result.blocked THEN
        [system_state |-> system_state,
         heap |-> IF selected # None
                  THEN [ov.heap EXCEPT ![selected].safety_block_cycles = @ + 1]
                  ELSE ov.heap,
         intents |-> ov.intents,
         last_selected_intent |-> selected,
         cycle |-> locals @@ [executed_intent |-> None, applied |-> FALSE, emitted |-> 1],
         frame |-> build_frame(system_state, policy_result, None, safety_result,
                               locals.override_applied, locals.lock_applied),
         status_writes |-> {}]
    ELSE IF selected = None THEN
        [system_state |-> system_state,
         heap |-> ov.heap,
         intents |-> archive_completed(ov),
         last_selected_intent |-> None,
         cycle |-> locals @@ [executed_intent |-> None, applied |-> FALSE, emitted |-> 1],
         frame |-> build_frame(system_state, policy_result, None, safety_result,
                               locals.override_applied, locals.lock_applied),
         status_writes |-> {}]
    ELSE
        LET ap == apply(system_state, ov.heap[selected])
            executed_intent == IF ap.result THEN selected ELSE None
            h1 == [ov.heap EXCEPT ![selected] = ap.intent]
            h2 == [h1 EXCEPT ![selected].consecutive_selected_cycles =
                                 update_lock_tracking(selected, last_selected_intent, h1)]
        IN
        [system_state |-> ap.system_state,
         heap |-> h2,
         intents |-> archive_completed([heap |-> h2, intents |-> ov.intents]),
         last_selected_intent |-> selected,
         cycle |-> locals @@ [executed_intent |-> executed_intent, applied |-> TRUE,
                             emitted |-> 1],
         frame |-> build_frame(ap.system_state, policy_result, executed_intent,
                               safety_result, locals.override_applied, locals.lock_applied),
         status_writes |-> ap.writes]

\* mutant of cycle_execute: the blocked path ends the iteration without a frame
cycle_execute_silent_block(policy_result, ov, locals, selected, safety_result) ==
    IF safety_result.blocked THEN
        [system_state |-> system_state,
         heap |-> IF selected # None
                  THEN [ov.heap EXCEPT ![selected].safety_block_cycles = @ + 1]
                  ELSE ov.heap,
         intents |-> ov.intents,
         last_selected_intent |-> last_selected_intent,
         cycle |-> locals @@ [executed_intent |-> None, applied |-> FALSE, emitted |-> 0],
         frame |-> build_frame(system_state, policy_result, None, safety_result,
                               locals.override_applied, locals.lock_applied),
         status_writes |-> {}]
    ELSE IF selected = None THEN
        [system_state |-> system_state,
         heap |-> ov.heap,
         intents |-> archive_completed(ov),
         last_selected_intent |-> None,
         cycle |-> locals @@ [executed_intent |-> None, applied |-> FALSE, emitted |-> 1],
         frame |-> build_frame(system_state, policy_result, None, safety_result,
                               locals.override_applied, locals.lock_applied),
         status_writes |-> {}]
    ELSE
        LET ap == apply(system_state, ov.heap[selected])
            executed_intent == IF ap.result THEN selected ELSE None
            h1 == [ov.heap EXCEPT ![selected] = ap.intent]
            h2 == [h1 EXCEPT ![selected].consecutive_selected_cycles =
                                 update_lock_tracking(selected, last_selected_intent, h1)]
        IN
        [system_state |-> ap.system_state,
         heap |-> h2,
         intents |-> archive_completed([heap |-> h2, intents |-> ov.intents]),
         last_selected_intent |-> selected,
         cycle |-> locals @@ [executed_intent |-> executed_intent, applied |-> TRUE,
                             emitted |-> 1],
         frame |-> build_frame(ap.system_state, policy_result, executed_intent,
                               safety_result, locals.override_applied, locals.lock_applied),
         status_writes |-> ap.writes]

\* blocked execution, or state mutation, lock tracking and archival; then the
\* frame (emitted counts the _emit_frame calls of the path taken)
cycle_execute(policy_result, ov, locals, selected, safety_result) ==
    IF safety_result.blocked THEN
        [system_state |-> system_state,
         heap |-> IF selected # None
                  THEN [ov.heap EXCEPT ![selected].safety_block_cycles = @ + 1]
                  ELSE ov.heap,
         intents |-> ov.intents,
         last_selected_intent |-> last_selected_intent,
         cycle |-> locals @@ [executed_intent |-> None, applied |-> FALSE, emitted |-> 1],
         frame |-> build_frame(system_state, policy_result, None, safety_result,
                               locals.override_applied, locals.lock_applied),
         status_writes |-> {}]
    ELSE IF selected = None THEN
        [system_state |-> system_state,
         heap |-> ov.heap,
         intents |-> archive_completed(ov),
         last_selected_intent |-> None,
         cycle |-> locals @@ [executed_intent |-> None, applied |-> FALSE, emitted |-> 1],
         frame |-> build_frame(system_state, policy_result, None, safety_result,
                               locals.override_applied, locals.lock_applied),
         status_writes |-> {}]
    ELSE
        LET ap == apply(system_state, ov.heap[selected])
            executed_intent == IF ap.result THEN selected ELSE None
            h1 == [ov.heap EXCEPT ![selected] = ap.intent]
            h2 == [h1 EXCEPT ![selected].consecutive_selected_cycles =
                                 update_lock_tracking(selected, last_selected_intent, h1)]
        IN
        [system_state |-> ap.system_state,
         heap |-> h2,
         intents |-> archive_completed([heap |-> h2, intents |-> ov.intents]),
         last_selected_intent |-> selected,
         cycle |-> locals @@ [executed_intent |-> executed_intent, applied |-> TRUE,
                             emitted |-> 1],
         frame |-> build_frame(ap.system_state, policy_result, executed_intent,
                               safety_result, locals.override_applied, locals.lock_applied),
         status_writes |-> ap.writes]

\* the locals of the iteration, as the frame and the lock tracking read them
cycle_locals(policy_result, safety_first, ov, injected, selected1, selected, safety_result) ==
    cycle_execute(policy_result, ov,
                  [policy_selected |-> policy_result.selected_intent,
                   critical_domains |-> safety_first.critical_domains,
                   override_target |-> ov.intent,
                   override_submitted |-> Len(ov.heap) > Len(heap) + injected,
                   injected |-> injected,
                   override_applied |-> selected1 # policy_result.selected_intent,
                   lock_applied |-> selected # selected1,
                   selected |-> selected,
                   blocked |-> safety_result.blocked,
                   reason |-> safety_result.reason,
                   state_before |-> system_state,
                   last_before |-> last_selected_intent,
                   last_count |-> IF last_selected_intent = None THEN 0
                                  ELSE ov.heap[last_selected_intent].consecutive_selected_cycles,
                   last_status |-> IF last_selected_intent = None THEN "none"
                                   ELSE ov.heap[last_selected_intent].status],
                  selected, safety_result)

\* safety evaluation of the final selection
cycle_final_safety(policy_result, safety_first, ov, injected, selected1, selected) ==
    cycle_locals(policy_result, safety_first, ov, injected, selected1, selected,
                 SafetyGate_evaluate(TypeOf(ov.heap, selected), system_state))

\* recovery lock
cycle_lock(policy_result, safety_first, ov, injected, selected1) ==
    cycle_final_safety(policy_result, safety_first, ov, injected, selected1,
                       apply_recovery_lock(selected1, last_selected_intent, ov.heap,
                                           safety_first.critical_domains))

\* critical override: the selection after it
cycle_override(policy_result, safety_first, ov, injected) ==
    cycle_lock(policy_result, safety_first, ov, injected,
               IF ov.intent # None /\ ov.intent # policy_result.selected_intent
               THEN ov.intent
               ELSE policy_result.selected_intent)

\* safety evaluation of the policy selection
cycle_first_safety(st1, active_intents, policy_result, safety_first) ==
    cycle_override(policy_result, safety_first,
                   apply_critical_override(st1, safety_first.critical_domains,
                                           active_intents, nframes),
                   Len(st1.heap) - Len(heap))

\* policy selection over the active list
cycle_policy(st1, active_intents, policy_result) ==
    cycle_first_safety(st1, active_intents, policy_result,
                       SafetyGate_evaluate(TypeOf(st1.heap, policy_result.selected_intent),
                                           system_state))

cycle_active(st1, active_intents) ==
    cycle_policy(st1, active_intents,
                 PolicyGate_evaluate(active_intents, st1.heap, system_state))

cycle_injected(st1) ==
    cycle_active(st1, list_active(st1))

\* pending injections applied in the given iteration order, then the rest
run_cycle(order) ==
    cycle_injected(apply_pending_safe_injections([heap |-> heap, intents |-> intents],
                                                 order, nframes))

\* ============================================== bootstrap and environment

BootConfig(battery_level, temperature, position, cycle_count, mode) ==
    [battery_level |-> battery_level, temperature |-> temperature,
     position |-> position, cycle_count |-> cycle_count, mode |-> mode]

\* SystemState() as constructed, with the attributes a bootstrap overrides:
\* main.py sets battery_level = 4.0, simulation_bootstrap.py 24.0,
\* mission_control.py none.  The others put the state near a threshold; the
\* last four stand for states that runs longer than MaxCycles reach (an
\* eclipse, a SAFE or LOW_POWER mode about to be left, SAFE with both domains
\* violated and no recovery intent left).
BootConfigs ==
    {BootConfig(400, 2500, 0, 0, "NOMINAL"),
     BootConfig(2400, 2500, 0, 0, "NOMINAL"),
     BootConfig(10000, 2500, 0, 0, "NOMINAL"),
     BootConfig(800, 2500, 0, 0, "NOMINAL"),
     BootConfig(2600, 2500, 0, 0, "NOMINAL"),
     BootConfig(400, 14500, 0, 0, "NOMINAL"),
     BootConfig(10000, 12500, 0, 0, "NOMINAL"),
     BootConfig(10000, 15010, 0, 0, "NOMINAL"),
     BootConfig(10000, 2500, 1000, 0, "NOMINAL"),
     BootConfig(0, 2500, 0, 0, "NOMINAL"),
     BootConfig(600, 12500, 0, 13, "NOMINAL"),
     BootConfig(10000, 10150, 0, 0, "SAFE"),
     BootConfig(2900, 2500, 0, 0, "LOW_POWER"),
     BootConfig(800, 12500, 0, 0, "SAFE")}

\* what an ingress surface passes to submit_intent: the type and the goal descriptor
Submissions ==
    {<<"orbit_correction", "position", 300>>,
     <<"orbit_correction", "position", 1100>>,
     <<"orbit_correction", "none", 0>>,
     <<"battery_recovery", "none", 0>>,
     <<"thermal_recovery", "none", 0>>}

\* stream_telemetry before it starts: last_index = 0, nothing read or emitted
NoReader ==
    [pc |-> "poll", last_index |-> 0, frames |-> <<>>, slice |-> <<>>, emitted |-> <<>>]

\* the locals before any iteration has run
NoLocals(s) ==
    [policy_selected |-> None, critical_domains |-> <<>>, override_target |-> None,
     override_submitted |-> FALSE, injected |-> 0, override_applied |-> FALSE,
     lock_applied |-> FALSE, selected |-> None, blocked |-> FALSE, reason |-> "none",
     state_before |-> s, last_before |-> None, last_count |-> 0, last_status |-> "none",
     executed_intent |-> None, applied |-> FALSE, emitted |-> 0]

Init ==
    /\ boot \in BootConfigs
    /\ system_state = [position |-> boot.position,
                       battery_level |-> boot.battery_level,
                       temperature |-> boot.temperature,
                       mode |-> boot.mode,
                       cycle_count |-> boot.cycle_count]
    /\ heap = <<>>
    /\ intents = <<>>
    /\ last_selected_intent = None
    /\ pending_safe_injections = {}
    /\ cycle = NoLocals(system_state)
    /\ frame = build_frame(system_state,
                           [selected_intent |-> None, scores |-> <<>>],
                           None, SafetyDecision(FALSE, "none", <<>>), FALSE, FALSE)
    /\ nframes = 0
    /\ status_writes = {}
    /\ denials = 0
    /\ running = FALSE
    /\ loops = <<>>
    /\ reader = NoReader

Ingress(h) == {i \in 1..Len(h) : h[i].origin = "ingress"}

\* IntentManager.submit_intent called by the ingress surface between two cycles
Submit ==
    /\ nframes < IngressWindow
    /\ Cardinality(Ingress(heap)) + denials < MaxIngress
    /\ \E sub \in Submissions :
         LET r == submit_intent([heap |-> heap, intents |-> intents],
                                sub[1], sub[2], sub[3], nframes, "ingress")
         IN /\ heap' = r.heap
            /\ intents' = r.intents
    /\ status_writes' = {}
    /\ UNCHANGED <<system_state, last_selected_intent, pending_safe_injections,
                   cycle, frame, nframes, denials, boot>>
    /\ UNCHANGED driver

\* IntentManager.mark_denied called from outside on a stored active intent
MarkDenied ==
    /\ nframes < IngressWindow
    /\ Cardinality(Ingress(heap)) + denials < MaxIngress
    /\ \E k \in 1..Len(intents) :
         LET i == intents[k] IN
         /\ heap[i].status \in Active
         /\ heap' = [heap EXCEPT ![i].status = "DENIED"]
         /\ status_writes' = {<<i, heap[i].status, "DENIED">>}
    /\ denials' = denials + 1
    /\ UNCHANGED <<system_state, intents, last_selected_intent, pending_safe_injections,
                   cycle, frame, nframes, boot>>
    /\ UNCHANGED driver

\* the effect of one iteration of Orchestrator.run on everything but the frame count
CycleStep ==
    \E r \in {run_cycle(order) : order \in Orders(pending_safe_injections)} :
        /\ system_state' = r.system_state
        /\ heap' = r.heap
        /\ intents' = r.intents
        /\ last_selected_intent' = r.last_selected_intent
        /\ pending_safe_injections' = compute_safe_injections(system_state)
        /\ cycle' = r.cycle
        /\ frame' = r.frame
        /\ status_writes' = r.status_writes
        /\ UNCHANGED <<denials, boot>>

\* Orchestrator.run(cycles=1), as the runner and main.py drive it
Cycle ==
    /\ nframes < MaxCycles
    /\ CycleStep
    /\ nframes' = nframes + cycle'.emitted
    /\ UNCHANGED driver

Next == Cycle \/ Submit \/ MarkDenied

Spec == Init /\ [][Next]_vars

\* ------------------------------------------------- the loop left running
\* OrchestrationRunner._loop calls run(cycles=1) for as long as it runs, so an
\* iteration that can be taken is eventually taken.  The number of frames is
\* unbounded there; it is kept up to MaxCycles and then wraps to IngressWindow,
\* which leaves the ingress surface closed for good.  What bounds the run is
\* the work done: iterations that executed an intent or blocked one.

RECURSIVE BlockedCycles(_, _)
BlockedCycles(h, n) ==
    IF n = 0 THEN 0 ELSE h[n].safety_block_cycles + BlockedCycles(h, n - 1)

\* iterations so far that executed (cycle_count advanced) or blocked an intent
WorkDone == (system_state.cycle_count - boot.cycle_count) + BlockedCycles(heap, Len(heap))

Capped == WorkDone >= LiveCap

\* the runner's tick: one more call of run(cycles=1), one more frame
RunnerTick ==
    /\ ~Capped
    /\ nframes' = IF nframes < MaxCycles THEN nframes + 1 ELSE IngressWindow

LiveCycle == RunnerTick /\ CycleStep /\ UNCHANGED driver

LiveNext == LiveCycle \/ Submit \/ MarkDenied

\* Weak fairness of the iteration.  CycleStep can always be taken and only
\* LiveCycle changes nframes, so a RunnerTick step of LiveNext is a LiveCycle
\* step and LiveCycle is enabled exactly when RunnerTick is.
LiveSpec == Init /\ [][LiveNext]_vars /\ WF_nframes(RunnerTick)

\* ------------------------------------------- the dashboard: driver and reader
\* mission_control.py wires a default SystemState, submits one orbit_correction
\* to position 3.0, starts the OrchestrationRunner and a background task that
\* streams the frames of the TelemetryBus.

core == <<system_state, heap, intents, last_selected_intent, pending_safe_injections,
          cycle, frame, nframes, status_writes, denials, boot>>

DashboardBoot == BootConfig(10000, 2500, 0, 0, "NOMINAL")

DashboardStore ==
    submit_intent([heap |-> <<>>, intents |-> <<>>],
                  "orbit_correction", "position", 300, 0, "ingress")

\* the module-level wiring, with the runner as given
DashboardInit(is_running, threads) ==
    /\ boot = DashboardBoot
    /\ system_state = [position |-> boot.position,
                       battery_level |-> boot.battery_level,
                       temperature |-> boot.temperature,
                       mode |-> boot.mode,
                       cycle_count |-> boot.cycle_count]
    /\ heap = DashboardStore.heap
    /\ intents = DashboardStore.intents
    /\ last_selected_intent = None
    /\ pending_safe_injections = {}
    /\ cycle = NoLocals(system_state)
    /\ frame = build_frame(system_state,
                           [selected_intent |-> None, scores |-> <<>>],
                           None, SafetyDecision(FALSE, "none", <<>>), FALSE, FALSE)
    /\ nframes = 0
    /\ status_writes = {}
    /\ denials = 0
    /\ running = is_running
    /\ loops = threads
    /\ reader = NoReader

\* OrchestrationRunner.start
RunnerStart ==
    /\ Len(loops) < MaxThreads
    /\ IF running
       THEN UNCHANGED <<running, loops>>
       ELSE /\ running' = TRUE
            /\ loops' = Append(loops, "check")
    /\ UNCHANGED <<core, reader>>

\* OrchestrationRunner.stop
RunnerStop ==
    /\ running' = FALSE
    /\ UNCHANGED <<core, loops, reader>>

\* _loop, thread t: the test of `while self._running`
LoopCheck(t) ==
    /\ loops[t] = "check"
    /\ loops' = [loops EXCEPT ![t] = IF running THEN "run" ELSE "done"]
    /\ UNCHANGED <<core, running, reader>>

\* _loop, thread t: self.orchestrator.run(cycles=1)
LoopRun(t) ==
    /\ loops[t] = "run"
    /\ nframes < MaxCycles
    /\ CycleStep
    /\ nframes' = nframes + cycle'.emitted
    /\ loops' = [loops EXCEPT ![t] = "sleep"]
    /\ UNCHANGED <<running, reader>>

\* _loop, thread t: time.sleep(self.interval) returns
LoopWake(t) ==
    /\ loops[t] = "sleep"
    /\ loops' = [loops EXCEPT ![t] = "check"]
    /\ UNCHANGED <<core, running, reader>>

\* the threads on _loop, each at its own pace
Loop ==
    \/ \E t \in 1..Len(loops) : LoopCheck(t)
    \/ \E t \in 1..Len(loops) : LoopRun(t)
    \/ \E t \in 1..Len(loops) : LoopWake(t)

\* the runner as its callers can drive it
RunnerNext == RunnerStart \/ RunnerStop \/ Loop

RunnerSpec == DashboardInit(FALSE, <<>>) /\ [][RunnerNext]_vars

\* TelemetryBus.get_frames with n frames published: a snapshot of the appends
\* so far, each frame standing as its place in the order of publication
get_frames(n) == [k \in 1..n |-> k]

\* mutant of next_last_index: the length is read from the bus again
next_last_index_reread(frames, published) == published

\* stream_telemetry: last_index = len(frames)
next_last_index(frames, published) == Len(frames)

\* stream_telemetry: frames = get_frames() and the test of the new frames
ReaderPoll ==
    /\ reader.pc = "poll"
    /\ LET frames == get_frames(nframes) IN
       reader' = IF reader.last_index < Len(frames)
                 THEN [reader EXCEPT !.frames = frames,
                                     !.slice = SubSeq(frames, reader.last_index + 1, Len(frames)),
                                     !.pc = "emit"]
                 ELSE [reader EXCEPT !.frames = frames, !.pc = "sleep"]
    /\ UNCHANGED <<core, running, loops>>

\* stream_telemetry: socketio.emit of the next frame of frames[last_index:]
ReaderEmit ==
    /\ reader.pc = "emit"
    /\ reader' = [reader EXCEPT !.emitted = Append(@, Head(reader.slice)),
                                !.slice = Tail(@),
                                !.pc = IF Len(reader.slice) = 1 THEN "advance" ELSE "emit"]
    /\ UNCHANGED <<core, running, loops>>

\* stream_telemetry: last_index = len(frames), then socketio.sleep
ReaderAdvance ==
    /\ reader.pc = "advance"
    /\ reader' = [reader EXCEPT !.last_index = next_last_index(reader.frames, nframes),
                                !.pc = "sleep"]
    /\ UNCHANGED <<core, running, loops>>

\* stream_telemetry: socketio.sleep(0.1) returns
ReaderWake ==
    /\ reader.pc = "sleep"
    /\ reader' = [reader EXCEPT !.pc = "poll"]
    /\ UNCHANGED <<core, running, loops>>

Reader == ReaderPoll \/ ReaderEmit \/ ReaderAdvance \/ ReaderWake

\* mission_control.py as run: runner.start(), then the streaming task beside it
StreamNext == Loop \/ Reader

StreamSpec == DashboardInit(TRUE, <<"check">>) /\ [][StreamNext]_vars

\* ================================================================== claims

InStore(i) == \E k \in 1..Len(intents) : intents[k] = i

\* no hard invariant is violated in s
HardInvariantsHold(s) ==
    /\ s.battery_level >= MIN_BATTERY
    /\ s.temperature <= MAX_TEMP
    /\ s.position >= POSITION_MIN
    /\ s.position <= POSITION_MAX

\* the reason names a hard invariant that s violates
MatchingHardReason(reason, s) ==
    \/ reason = "battery_depleted" /\ s.battery_level <= MIN_BATTERY
    \/ reason = "temperature_max_exceeded" /\ s.temperature >= MAX_TEMP
    \/ reason = "position_bounds_exceeded"
       /\ (s.position < POSITION_MIN \/ s.position > POSITION_MAX)

\* C1: after every cycle the state it leaves is within the hard bounds (battery
\* at least MIN_BATTERY, temperature at most MAX_TEMP, position within
\* [POSITION_MIN, POSITION_MAX]), or the cycle's frame is blocked with the
\* reason of a hard invariant that is violated.
C1_HardBoundsOrBlocked ==
    nframes > 0 =>
        \/ HardInvariantsHold(system_state)
        \/ frame.safety.blocked /\ MatchingHardReason(frame.safety.reason, system_state)

\* C2: after every cycle, executed, blocked or idle, the state is never
\* NOMINAL with battery_level at or below SAFE_ENTRY_BATTERY.
C2_NominalAboveSafeEntry ==
    nframes > 0 =>
        ~(system_state.mode = "NOMINAL" /\ system_state.battery_level <= SAFE_ENTRY_BATTERY)

\* a write to Intent.status that follows PENDING -> ACTIVE -> {COMPLETED, DENIED}
ForwardWrite(from, to) ==
    \/ from = "PENDING"
    \/ from = "ACTIVE" /\ to # "PENDING"
    \/ from \in Terminal /\ to = from

\* C3: every assignment to an intent's status moves it forward along
\* PENDING -> ACTIVE -> {COMPLETED, DENIED}; a COMPLETED or DENIED intent is
\* never set back to ACTIVE or PENDING.  Asked of the runs made of cycles and
\* submissions only (no mark_denied call).
C3_StatusMovesForward ==
    denials = 0 => \A w \in status_writes : ForwardWrite(w[2], w[3])

RecoveryTypeOf(domain) ==
    IF domain = "battery" THEN "battery_recovery" ELSE "thermal_recovery"

\* a stored recovery intent of the domain is pending or active
RecoveryActive(domain) ==
    \E k \in 1..Len(intents) :
        /\ heap[intents[k]].intent_type = RecoveryTypeOf(domain)
        /\ heap[intents[k]].status \in Active

\* a cycle starts here, the ingress surface makes no further call, a SAFE
\* entry threshold is met and no hard invariant is violated
SafeEntryDue ==
    /\ nframes >= IngressWindow
    /\ HardInvariantsHold(system_state)
    /\ \/ system_state.battery_level <= SAFE_ENTRY_BATTERY
       \/ system_state.temperature >= SAFE_ENTRY_TEMP

\* C4: when a cycle starts with battery_level <= SAFE_ENTRY_BATTERY or
\* temperature >= SAFE_ENTRY_TEMP, no hard invariant violated and nothing
\* intervening from outside afterwards, the mode eventually becomes SAFE and a
\* recovery intent of each domain past its threshold eventually becomes active
\* (or the run has done LiveCap iterations of work and is cut off).
C4_SafeEntryLeadsToSafeAndRecovery ==
    /\ SafeEntryDue ~> (system_state.mode = "SAFE" \/ Capped)
    /\ (SafeEntryDue /\ system_state.battery_level <= SAFE_ENTRY_BATTERY)
           ~> (RecoveryActive("battery") \/ Capped)
    /\ (SafeEntryDue /\ system_state.temperature >= SAFE_ENTRY_TEMP)
           ~> (RecoveryActive("thermal") \/ Capped)

\* C5: a cycle that starts in SAFE and ends in another mode started with
\* battery_level >= SAFE_EXIT_BATTERY - SAFE_EXIT_EPSILON and temperature <=
\* SAFE_EXIT_TEMP + SAFE_EXIT_TEMP_EPSILON, and ends in NOMINAL.
C5_SafeLeftOnlyAtExitThresholds ==
    (nframes > 0 /\ cycle.state_before.mode = "SAFE" /\ system_state.mode # "SAFE") =>
        /\ cycle.state_before.battery_level >= SAFE_EXIT_BATTERY - SAFE_EXIT_EPSILON
        /\ cycle.state_before.temperature <= SAFE_EXIT_TEMP + SAFE_EXIT_TEMP_EPSILON
        /\ system_state.mode = "NOMINAL"

\* C6: in a cycle whose first safety evaluation reports critical domains the
\* recovery lock is not applied: lock_applied is false and the final selection
\* is the override target, the recovery intent of the first critical domain.
C6_CriticalOverrideBeatsLock ==
    (nframes > 0 /\ cycle.critical_domains # <<>>) =>
        /\ ~cycle.lock_applied
        /\ cycle.override_target # None
        /\ cycle.selected = cycle.override_target
        /\ heap[cycle.selected].intent_type = RecoveryTypeOf(Head(cycle.critical_domains))

\* C6 happens: critical domains while the last selection is another recovery
\* intent that the lock would still hold
C6_Witness ==
    /\ nframes > 0
    /\ cycle.critical_domains # <<>>
    /\ cycle.last_before # None
    /\ IsRecovery(heap[cycle.last_before].intent_type)
    /\ cycle.last_count < MIN_RECOVERY_LOCK_CYCLES
    /\ cycle.last_before # cycle.selected

\* the cycle started with an uncompleted battery_recovery as the last selection
\* and no critical domain
LockCase ==
    /\ nframes > 0
    /\ cycle.last_before # None
    /\ heap[cycle.last_before].intent_type = "battery_recovery"
    /\ cycle.last_status \in Active
    /\ cycle.critical_domains = <<>>

\* C7: a battery_recovery intent selected and executed in cycle k (its
\* consecutive_selected_cycles becomes 1, then grows by one in each cycle that
\* executes it again), not completed and with no critical domain, is the final
\* selection of cycles k+1 and k+2 (count 1 and 2 at their start) whatever
\* PolicyGate selects; in cycle k+3 (count 3) the lock does not apply and the
\* final selection is the policy selection.
C7_LockHoldsThenReleases ==
    /\ LockCase /\ cycle.last_count \in {1, 2} => cycle.selected = cycle.last_before
    /\ LockCase /\ cycle.last_count = 3 =>
          ~cycle.lock_applied /\ cycle.selected = cycle.policy_selected
    /\ (nframes > 0 /\ cycle.applied) =>
          heap[cycle.selected].consecutive_selected_cycles =
              IF cycle.selected = cycle.last_before THEN cycle.last_count + 1 ELSE 1

\* C7 happens: in cycle k+2 the lock keeps the battery_recovery although
\* PolicyGate selected another intent
C7_Witness ==
    /\ LockCase
    /\ cycle.last_count = 2
    /\ cycle.lock_applied
    /\ cycle.policy_selected # None
    /\ cycle.policy_selected # cycle.selected
    /\ cycle.executed_intent = cycle.last_before

\* the ingress surface submitted exactly one intent, an orbit_correction, before
\* the first cycle, and denied none
SingleOrbitScenario ==
    /\ denials = 0
    /\ Ingress(heap) = {1}
    /\ heap[1].intent_type = "orbit_correction"
    /\ heap[1].created_at = 0

\* main.py: battery 4.0 and one orbit_correction
LowBatteryScenario ==
    /\ boot = BootConfig(400, 2500, 0, 0, "NOMINAL")
    /\ SingleOrbitScenario

\* the stored active battery_recovery intents
ActiveBatteryRecovery ==
    {i \in 1..Len(heap) : /\ InStore(i)
                          /\ heap[i].intent_type = "battery_recovery"
                          /\ heap[i].status \in Active}

\* C8 as stated: from battery 4.0, NOMINAL and a single orbit_correction, cycle 1
\* ends in SAFE with {battery_recovery} staged; in cycle 2 an active
\* battery_recovery is the selection and the cycle is blocked with reason
\* safe_mode_mission_blocked.
C8_AsStated ==
    LowBatteryScenario =>
        /\ nframes = 1 =>
              /\ system_state.mode = "SAFE"
              /\ pending_safe_injections = {"battery_recovery"}
        /\ nframes = 2 =>
              /\ cycle.selected \in ActiveBatteryRecovery
              /\ cycle.blocked
              /\ cycle.reason = "safe_mode_mission_blocked"

\* C8 amended: from battery 4.0, NOMINAL and a single orbit_correction, cycle 1
\* ends in SAFE with nothing staged (staging reads the mode before the cycle's
\* mode update) and with the battery_recovery the critical override submitted;
\* cycle 2 stages {battery_recovery}, selects and executes that active
\* battery_recovery and is not blocked, while SafetyGate answers
\* safe_mode_mission_blocked for an orbit_correction in the state cycle 2 saw.
C8_StagingLagsOneCycle ==
    LowBatteryScenario =>
        /\ nframes = 1 =>
              /\ system_state.mode = "SAFE"
              /\ pending_safe_injections = {}
              /\ cycle.override_submitted
              /\ ActiveBatteryRecovery = {cycle.selected}
        /\ nframes = 2 =>
              /\ pending_safe_injections = {"battery_recovery"}
              /\ ActiveBatteryRecovery = {cycle.selected}
              /\ cycle.executed_intent = cycle.selected
              /\ ~cycle.blocked
              /\ SafetyGate_evaluate("orbit_correction", cycle.state_before).blocked
              /\ SafetyGate_evaluate("orbit_correction", cycle.state_before).reason
                     = "safe_mode_mission_blocked"

\* C8 happens: the scenario after its second cycle
C8_Witness ==
    /\ LowBatteryScenario
    /\ nframes = 2
    /\ cycle.selected \in ActiveBatteryRecovery

\* the battery_recovery intents the critical override has submitted
OverrideBatteryRecovery ==
    {i \in 1..Len(heap) : /\ heap[i].intent_type = "battery_recovery"
                          /\ heap[i].origin = "critical_override"}

\* C9: from battery 4.0 with one orbit_correction and no recovery intent, in
\* cycle 1 critical_domains contains battery, the override submits exactly one
\* new battery_recovery intent (and nothing else is created), override_applied
\* is true and that intent is the final selection.
C9_OverrideSubmitsBatteryRecovery ==
    (boot.battery_level = 400 /\ boot.mode = "NOMINAL" /\ SingleOrbitScenario /\ nframes = 1) =>
        /\ \E k \in 1..Len(cycle.critical_domains) : cycle.critical_domains[k] = "battery"
        /\ cycle.override_submitted
        /\ cycle.injected = 0
        /\ Cardinality(OverrideBatteryRecovery) = 1
        /\ {i \in 1..Len(heap) : heap[i].origin # "ingress"} = OverrideBatteryRecovery
        /\ cycle.override_applied
        /\ cycle.selected \in OverrideBatteryRecovery

\* C9 happens: the scenario after its first cycle
C9_Witness ==
    /\ boot.battery_level = 400
    /\ SingleOrbitScenario
    /\ nframes = 1
    /\ cycle.override_applied

\* mission_control.py: the default state and one orbit_correction to position 3.0
NominalOrbitScenario ==
    /\ boot = BootConfig(10000, 2500, 0, 0, "NOMINAL")
    /\ SingleOrbitScenario
    /\ Len(heap) = 1
    /\ heap[1].goal_metric = "position"
    /\ heap[1].goal_reference = 300

\* C10: from battery 100, temperature 25, position 0, NOMINAL and a single
\* orbit_correction to position 3.0: before the sixth cycle the intent is not
\* COMPLETED and position is below 3.0; after exactly six cycles position is
\* 3.0 and the status is COMPLETED; after seven the intent is not in the store.
C10_OrbitConvergesInSixCycles ==
    NominalOrbitScenario =>
        /\ nframes < 6 => heap[1].status \in Active /\ system_state.position < 300
        /\ nframes = 6 => heap[1].status = "COMPLETED" /\ system_state.position = 300
        /\ nframes >= 7 => ~InStore(1)

\* C10 happens: the scenario after its sixth cycle
C10_Witness ==
    /\ NominalOrbitScenario
    /\ nframes = 6
    /\ heap[1].status = "COMPLETED"

\* a cycle has run and it started with temperature at or above MAX_TEMP
StartedAtMaxTemp ==
    /\ nframes > 0
    /\ cycle.state_before.temperature >= MAX_TEMP

\* C11: a cycle that starts with temperature >= MAX_TEMP is blocked whatever the
\* store holds: its frame has safety.blocked, no intent is executed and the
\* SystemState is left as the cycle found it; with the battery above MIN_BATTERY
\* (the hard invariant tested before the temperature) the reason is
\* temperature_max_exceeded.
C11_MaxTempBlocksCycle ==
    StartedAtMaxTemp =>
        /\ frame.safety.blocked
        /\ cycle.state_before.battery_level > MIN_BATTERY
               => frame.safety.reason = "temperature_max_exceeded"
        /\ cycle.executed_intent = None
        /\ frame.execution.executed_intent_id = None
        /\ ~cycle.applied
        /\ system_state = cycle.state_before

\* C11 happens: such a cycle with a selected intent and others in the store
C11_Witness ==
    /\ StartedAtMaxTemp
    /\ cycle.selected # None
    /\ Len(intents) >= 2
    /\ frame.safety.reason = "temperature_max_exceeded"

\* safety_block_cycles of intent i before a step (0 for an intent the step creates)
BlockCyclesBefore(i) == IF i <= Len(heap) THEN heap[i].safety_block_cycles ELSE 0

\* C12: a cycle whose final safety evaluation is blocked adds exactly 1 to the
\* safety_block_cycles of its final selection (when there is one), emits exactly
\* one frame, does not invoke StateEngine.apply and so leaves the SystemState
\* unchanged, and leaves last_selected and every consecutive_selected_cycles
\* counter unchanged.
C12_BlockedCycleEffects ==
    [][(CycleStep /\ cycle'.blocked) =>
          /\ cycle'.selected # None =>
                 heap'[cycle'.selected].safety_block_cycles
                     = BlockCyclesBefore(cycle'.selected) + 1
          /\ \A i \in 1..Len(heap') :
                 i # cycle'.selected =>
                     heap'[i].safety_block_cycles = BlockCyclesBefore(i)
          /\ nframes' = nframes + 1
          /\ ~cycle'.applied
          /\ system_state' = system_state
          /\ last_selected_intent' = last_selected_intent
          /\ \A i \in 1..Len(heap) :
                 heap'[i].consecutive_selected_cycles = heap[i].consecutive_selected_cycles
      ]_vars

\* C12 happens: a blocked cycle with a selection blocked before, while
\* last_selected refers to an intent
C12_Witness ==
    /\ nframes > 0
    /\ cycle.blocked
    /\ cycle.selected # None
    /\ heap[cycle.selected].safety_block_cycles >= 2
    /\ last_selected_intent # None
    /\ cycle.last_before = last_selected_intent

\* the last cycle selected no intent and was not blocked
IdleCycle ==
    /\ nframes > 0
    /\ cycle.selected = None
    /\ ~cycle.blocked

\* C13: a cycle in which no intent is selected still runs the mode update: it
\* leaves the mode that _update_mode gives for the battery_level and temperature
\* it started with, and leaves position, battery_level, temperature and
\* cycle_count unchanged.
C13_IdleCycleUpdatesMode ==
    IdleCycle =>
        /\ system_state.mode = update_mode(cycle.state_before).mode
        /\ system_state.position = cycle.state_before.position
        /\ system_state.battery_level = cycle.state_before.battery_level
        /\ system_state.temperature = cycle.state_before.temperature
        /\ system_state.cycle_count = cycle.state_before.cycle_count

\* the last cycle ran with no intent in the store
EmptyStoreCycle ==
    /\ IdleCycle
    /\ cycle.policy_selected = None
    /\ cycle.injected = 0
    /\ intents = <<>>

\* the battery change per cycle of the eclipse model: +0.54 in the first 14
\* cycles of each period of 20, -0.6 in the other 6
EclipseDelta(cycle_count) ==
    IF cycle_count % ECLIPSE_PERIOD < ECLIPSE_PERIOD - ECLIPSE_DURATION
    THEN (SOLAR_CHARGE_RATE * CHARGE_EFFICIENCY) \div 100 - BASE_LOAD
    ELSE 0 - BASE_LOAD

\* C14: with no intent in the store a cycle changes battery_level by the eclipse
\* model's delta for its place in the period (+0.54 or -0.6), clamped below at
\* MIN_BATTERY.
C14_IdleBatteryFollowsEclipseModel ==
    EmptyStoreCycle =>
        system_state.battery_level =
            Max(MIN_BATTERY, cycle.state_before.battery_level
                                 + EclipseDelta(cycle.state_before.cycle_count))

\* C15: at the end of every cycle the store holds no intent whose status is
\* COMPLETED or DENIED, whichever path the cycle took.
C15_NoTerminalIntentStored ==
    [][CycleStep =>
          \A k \in 1..Len(intents') : heap'[intents'[k]].status \notin Terminal
      ]_vars

\* the last cycle called StateEngine.apply on an intent whose status was
\* COMPLETED or DENIED (apply's first write to the status records what it was)
AppliedToInactive ==
    /\ nframes > 0
    /\ cycle.applied
    /\ \E w \in status_writes : w[1] = cycle.selected /\ w[2] \in Terminal

\* C16: StateEngine.apply on an intent that is COMPLETED or DENIED is a no-op:
\* the SystemState, cycle_count included, is as before the call, and the intent
\* keeps its terminal status and its evaluation count.
C16_ApplyOnInactiveIsNoOp ==
    AppliedToInactive =>
        /\ system_state = cycle.state_before
        /\ heap[cycle.selected].status \in Terminal
        /\ \A w \in status_writes : w[1] # cycle.selected

\* C17: runs with the same initial SystemState, the same submissions and the
\* same number of cycles publish the same frames: the frame of the next cycle
\* is fixed by the state the cycle starts from, whatever order the iteration
\* over pending_safe_injections takes.
C17_FramesDeterministic ==
    \A o1, o2 \in Orders(pending_safe_injections) :
        run_cycle(o1).frame = run_cycle(o2).frame

\* battery levels and temperatures around every threshold SafetyGate reads
BatteryLevels ==
    {MIN_BATTERY, CRITICAL_BATTERY - 1, CRITICAL_BATTERY, CRITICAL_BATTERY + 1,
     SAFE_ENTRY_BATTERY, SAFE_ENTRY_BATTERY + 1, LOW_POWER_ENTRY, SAFE_EXIT_BATTERY * 5}

Temperatures ==
    {SAFE_ENTRY_TEMP \div 5, SAFE_ENTRY_TEMP - 1, SAFE_ENTRY_TEMP, CRITICAL_TEMP - 1,
     CRITICAL_TEMP, MAX_TEMP - 1, MAX_TEMP, MAX_TEMP + 1}

\* the states that differ from s in battery_level and temperature only and
\* are worse: battery lower or equal, temperature higher or equal, one strictly
WorseStates(s) ==
    {[s EXCEPT !.battery_level = b, !.temperature = t] :
        <<b, t>> \in {bt \in BatteryLevels \X Temperatures :
                         /\ bt[1] <= s.battery_level
                         /\ bt[2] >= s.temperature
                         /\ (bt[1] < s.battery_level \/ bt[2] > s.temperature)}}

CandidateTypes == IntentTypes \cup {"none"}

\* C18: for a fixed candidate intent, mode and position, a state in which
\* SafetyGate.evaluate answers blocked has only blocked states among those with
\* battery_level lower or equal and temperature higher or equal.
C18_SafetyMonotone ==
    \A intent_type \in CandidateTypes :
        SafetyGate_evaluate(intent_type, system_state).blocked =>
            \A worse \in WorseStates(system_state) :
                SafetyGate_evaluate(intent_type, worse).blocked

\* C18 happens: a cycle was blocked by the gate for a reason that is not a hard
\* invariant, in a state where the gate passes another intent and that has
\* worse states on both axes
C18_Witness ==
    /\ nframes > 0
    /\ system_state = cycle.state_before
    /\ cycle.reason = "battery_unsafe_execution_blocked"
    /\ SafetyGate_evaluate("orbit_correction", system_state).blocked
    /\ SafetyGate_evaluate("orbit_correction", system_state).reason
           = "battery_unsafe_execution_blocked"
    /\ ~SafetyGate_evaluate("battery_recovery", system_state).blocked
    /\ \E worse \in WorseStates(system_state) :
           /\ worse.battery_level < system_state.battery_level
           /\ worse.temperature > system_state.temperature
           /\ worse.battery_level > MIN_BATTERY
           /\ worse.temperature < MAX_TEMP

\* the active list of the store as it is, and PolicyGate.evaluate on it
ActiveNow == list_active([heap |-> heap, intents |-> intents])

PolicyNow == PolicyGate_evaluate(ActiveNow, heap, system_state)

\* C19: on a non-empty active list PolicyGate.evaluate selects an intent of the
\* list whose score is the maximum of the scores map, the earliest in insertion
\* order among those of maximal score; on an empty list it returns no
\* selection, an empty scores map and the reason no_active_intents.
C19_PolicySelectsFirstMax ==
    LET ids == ActiveNow
        result == PolicyNow
        scores == result.scores
    IN
    IF ids = <<>>
    THEN /\ result.selected_intent = None
         /\ scores = <<>>
         /\ result.reason = "no_active_intents"
    ELSE /\ DOMAIN scores = {ids[k] : k \in 1..Len(ids)}
         /\ \A k \in 1..Len(ids) : scores[ids[k]] = score_of(heap[ids[k]], system_state)
         /\ \E k \in 1..Len(ids) :
                /\ result.selected_intent = ids[k]
                /\ \A j \in 1..Len(ids) : scores[ids[j]] <= scores[ids[k]]
                /\ \A j \in 1..(k - 1) : scores[ids[j]] < scores[ids[k]]

\* C19 happens: after a cycle, two active intents share the maximal score, a
\* third scores lower, and the selection is the earlier of the two
C19_Witness ==
    /\ nframes > 0
    /\ Len(ActiveNow) >= 3
    /\ \E k \in 1..Len(ActiveNow) : \E j \in (k + 1)..Len(ActiveNow) :
           /\ PolicyNow.selected_intent = ActiveNow[k]
           /\ PolicyNow.scores[ActiveNow[j]] = PolicyNow.scores[ActiveNow[k]]
    /\ \E j \in 1..Len(ActiveNow) :
           PolicyNow.scores[ActiveNow[j]] < PolicyNow.scores[PolicyNow.selected_intent]

\* C20: every cycle publishes exactly one frame, whichever path it takes
\* (blocked, idle or executed), so run(N) publishes exactly N frames.
C20_OneFramePerCycle ==
    [][CycleStep => /\ nframes' = nframes + 1
                    /\ cycle'.emitted = 1
                    /\ frame'.safety.blocked = cycle'.blocked
                    /\ frame'.execution.executed_intent_id = cycle'.executed_intent
      ]_vars

\* C20 happens: a blocked cycle, after a cycle that executed an intent, has
\* published its frame
C20_Witness ==
    /\ nframes >= 2
    /\ cycle.blocked
    /\ cycle.emitted = 1
    /\ frame.safety.blocked
    /\ system_state.cycle_count > boot.cycle_count

\* the intents whose evaluation_cycles a step changed (StateEngine.apply adds
\* one at each call on an intent)
Evaluated ==
    {i \in 1..Len(heap') :
        heap'[i].evaluation_cycles # (IF i <= Len(heap) THEN heap[i].evaluation_cycles ELSE 0)}

\* C21: in every cycle StateEngine.apply is invoked at most once (at most one
\* intent has its evaluation count advanced, by one) and at most one intent is
\* recorded as executed, the one apply ran on; cycle_count grows by exactly 1
\* in a cycle that executes an intent and is unchanged in every other cycle,
\* and no other step changes it, so it never decreases.
C21_AtMostOneExecutionPerCycle ==
    [][/\ CycleStep =>
             /\ Cardinality(Evaluated) <= 1
             /\ \A i \in Evaluated :
                    /\ heap'[i].evaluation_cycles
                           = (IF i <= Len(heap) THEN heap[i].evaluation_cycles ELSE 0) + 1
                    /\ cycle'.executed_intent = i
             /\ cycle'.applied <=> Evaluated # {}
             /\ cycle'.executed_intent # None <=> cycle'.applied
             /\ frame'.execution.executed_intent_id = cycle'.executed_intent
             /\ system_state'.cycle_count =
                    system_state.cycle_count + (IF cycle'.executed_intent # None THEN 1 ELSE 0)
       /\ system_state'.cycle_count >= system_state.cycle_count
      ]_vars

\* C21 happens: a cycle that executed an intent, after at least one that
\* executed one and one that executed none
C21_Witness ==
    /\ cycle.executed_intent # None
    /\ system_state.cycle_count >= boot.cycle_count + 2
    /\ nframes > system_state.cycle_count - boot.cycle_count

\* C22: every intent a cycle executes is in the store's active list taken at
\* the start of that cycle (after the pending injections) or was created in
\* that cycle, so an intent archive_completed removed is never executed
\* afterwards.  Asked of the runs without a mark_denied call.
C22_ExecutedIntentIsStoredActive ==
    [][(CycleStep /\ denials = 0 /\ cycle'.executed_intent # None) =>
          \/ \E k \in 1..Len(ActiveNow) : ActiveNow[k] = cycle'.executed_intent
          \/ cycle'.executed_intent > Len(heap)
      ]_vars

\* C23: in a cycle that executes an orbit_correction intent the mode after the
\* cycle's mode update, the one its frame shows, is not LOW_POWER.
C23_NoOrbitCorrectionInLowPower ==
    (/\ nframes > 0
     /\ cycle.executed_intent # None
     /\ heap[cycle.executed_intent].intent_type = "orbit_correction") =>
        /\ frame.state.mode # "LOW_POWER"
        /\ update_mode(cycle.state_before).mode # "LOW_POWER"

Modes == {"NOMINAL", "LOW_POWER", "SAFE"}

\* the states SafetyGate is asked about: the current one in every mode and,
\* before the first cycle, those with battery_level and temperature around every
\* threshold the gate reads (the gate reads nothing else but the position)
GateStates ==
    {[system_state EXCEPT !.mode = m] : m \in Modes}
    \cup (IF nframes = 0
          THEN {[system_state EXCEPT !.mode = m, !.battery_level = bt[1],
                                     !.temperature = bt[2]] :
                   m \in Modes, bt \in BatteryLevels \X Temperatures}
          ELSE {})

\* none of the hard invariants SafetyGate tests is violated in s
NoHardViolation(s) ==
    /\ s.battery_level > MIN_BATTERY
    /\ s.temperature < MAX_TEMP
    /\ s.position >= POSITION_MIN
    /\ s.position <= POSITION_MAX

HardReasons == {"battery_depleted", "temperature_max_exceeded", "position_bounds_exceeded"}

\* C24: in every state with no hard invariant violated (battery_level above
\* MIN_BATTERY, temperature below MAX_TEMP, position within bounds), in every
\* mode, SafetyGate.evaluate does not block a battery_recovery or
\* thermal_recovery candidate; when it blocks one, a hard invariant is violated
\* and the reason names it.
C24_RecoveryBlockedOnlyByHardInvariant ==
    \A s \in GateStates : \A intent_type \in {"battery_recovery", "thermal_recovery"} :
        LET decision == SafetyGate_evaluate(intent_type, s) IN
        /\ NoHardViolation(s) => ~decision.blocked
        /\ decision.blocked => /\ ~NoHardViolation(s)
                               /\ decision.reason \in HardReasons
                               /\ MatchingHardReason(decision.reason, s)

\* C24 happens: a cycle that started in SAFE with the battery at or below the
\* SAFE entry threshold and the temperature at or above its own executed a
\* recovery intent, and the state it left has no hard invariant violated
C24_Witness ==
    /\ nframes > 0
    /\ cycle.state_before.mode = "SAFE"
    /\ cycle.state_before.battery_level <= SAFE_ENTRY_BATTERY
    /\ cycle.state_before.temperature >= SAFE_ENTRY_TEMP
    /\ cycle.selected # None
    /\ IsRecovery(heap[cycle.selected].intent_type)
    /\ ~cycle.blocked
    /\ cycle.executed_intent = cycle.selected
    /\ NoHardViolation(system_state)
    /\ ~SafetyGate_evaluate("thermal_recovery", system_state).blocked

\* the intents a step created
Created == (Len(heap) + 1)..Len(heap')

\* the battery_recovery intents of the active list a cycle takes: those stored
\* and active before it and those its pending injections create
ListedBatteryRecovery ==
    {i \in 1..Len(heap) : /\ \E k \in 1..Len(ActiveNow) : ActiveNow[k] = i
                          /\ heap[i].intent_type = "battery_recovery"}
    \cup {i \in Created : /\ heap'[i].origin = "safe_injection"
                          /\ heap'[i].intent_type = "battery_recovery"}

\* C25: in a cycle whose critical domains start with battery (battery alone, or
\* battery and thermal) the override target is a battery_recovery intent and is
\* the final selection: the first active battery_recovery of the cycle's
\* active list when there is one, and then the override creates nothing;
\* otherwise the one intent the override submits in that cycle.  The override
\* creates no thermal_recovery intent in such a cycle.
C25_OverrideServesFirstCriticalDomain ==
    [][(CycleStep /\ cycle'.critical_domains # <<>>
                  /\ Head(cycle'.critical_domains) = "battery") =>
          LET by_override == {i \in Created : heap'[i].origin = "critical_override"}
              target == cycle'.override_target
          IN /\ target # None
             /\ heap'[target].intent_type = "battery_recovery"
             /\ cycle'.selected = target
             /\ ListedBatteryRecovery # {} =>
                    /\ target \in ListedBatteryRecovery
                    /\ \A i \in ListedBatteryRecovery : target <= i
                    /\ by_override = {}
                    /\ ~cycle'.override_submitted
             /\ ListedBatteryRecovery = {} =>
                    /\ by_override = {target}
                    /\ cycle'.override_submitted
             /\ \A i \in by_override : heap'[i].intent_type # "thermal_recovery"
      ]_vars

\* C25 happens: battery and thermal both critical while PolicyGate selected an
\* active thermal_recovery; the override submitted a battery_recovery, which is
\* the final selection
C25_Witness ==
    /\ nframes > 0
    /\ cycle.critical_domains = <<"battery", "thermal">>
    /\ cycle.policy_selected # None
    /\ heap[cycle.policy_selected].intent_type = "thermal_recovery"
    /\ cycle.override_submitted
    /\ cycle.override_applied
    /\ cycle.selected = cycle.override_target
    /\ heap[cycle.selected].intent_type = "battery_recovery"

\* the reason SafetyGate gives in a state that violates a hard invariant (the
\* first violated one in the order battery, temperature, position)
HardReasonOf(s) ==
    IF s.battery_level <= MIN_BATTERY THEN "battery_depleted"
    ELSE IF s.temperature >= MAX_TEMP THEN "temperature_max_exceeded"
    ELSE "position_bounds_exceeded"

\* C26: a hard-invariant violation is absorbing.  From a state with
\* battery_level <= MIN_BATTERY, temperature >= MAX_TEMP or position out of
\* bounds no step changes the SystemState (so the violation and its reason
\* stay), and every cycle is blocked with the reason of that violation, executes
\* no intent and does not call StateEngine.apply, whatever the store holds.
C26_HardViolationAbsorbing ==
    [][~NoHardViolation(system_state) =>
          /\ system_state' = system_state
          /\ CycleStep =>
                 /\ cycle'.blocked
                 /\ cycle'.reason = HardReasonOf(system_state)
                 /\ frame'.safety.blocked
                 /\ frame'.safety.reason = HardReasonOf(system_state)
                 /\ cycle'.executed_intent = None
                 /\ ~cycle'.applied
      ]_vars

\* C26 happens: the position left its bounds during the run, and cycles after
\* that, one of them with an empty active list, were blocked for it
C26_Witness ==
    /\ nframes >= 3
    /\ boot.position <= POSITION_MAX
    /\ cycle.state_before.position > POSITION_MAX
    /\ cycle.blocked
    /\ cycle.reason = "position_bounds_exceeded"
    /\ cycle.selected = None
    /\ system_state = cycle.state_before

\* the loop threads inside their call of Orchestrator.run
Driving == {t \in 1..Len(loops) : loops[t] = "run"}

\* C27: at any time at most one loop thread of the OrchestrationRunner is
\* driving Orchestrator.run, also after stop() followed by start().
C27_OneLoopDrivesCycles ==
    Cardinality(Driving) <= 1

\* the frames in q are the first Len(q) frames published, in order
IsPrefixOfAppends(q) == \A k \in 1..Len(q) : q[k] = k

\* C28: under every interleaving of the cycle writer and the streaming reader,
\* what get_frames() gave the reader is a prefix of the writer's appends, and
\* each poll's snapshot extends the one before; stream_telemetry emits the
\* frames in append order, none skipped or repeated, never one that was not
\* published, and when it goes to sleep it has emitted every frame of the
\* snapshot it took.
C28_ReaderSeesGrowingPrefix ==
    [][/\ IsPrefixOfAppends(reader'.frames)
       /\ Len(reader'.frames) <= nframes'
       /\ Len(reader'.frames) >= Len(reader.frames)
       /\ IsPrefixOfAppends(reader'.emitted)
       /\ Len(reader'.emitted) <= Len(reader'.frames)
       /\ reader'.pc = "sleep" =>
              /\ Len(reader'.emitted) = Len(reader'.frames)
              /\ reader'.last_index = Len(reader'.emitted)
      ]_vars

\* C28 happens: the reader finished a pass of several frames during which the
\* writer published another one, after an earlier pass
C28_Witness ==
    /\ reader.pc = "sleep"
    /\ Len(reader.emitted) >= 3
    /\ reader.last_index = Len(reader.emitted)
    /\ nframes > Len(reader.frames)

====
